---------------------------- MODULE Spec2Model ----------------------------
(***************************************************************************)
(* mandelart: the frame scheduler of main (src/main.rs) with its worker    *)
(* threads and one-shot channels, and the colour mapper of                 *)
(* src/mandelbrot.rs.                                                      *)
(*                                                                         *)
(* ParseSpec  parse_args over every short command line, then the           *)
(*            scheduler on what it returned.                               *)
(* Spec       the scheduler: the main thread, the worker threads it        *)
(*            spawns, their channels and the output sink.                  *)
(* LiveSpec   Spec with the fairness of the OS scheduler (a runnable       *)
(*            thread eventually runs).                                     *)
(* ColorSpec  colorize and the match of color_point, applied to every      *)
(*            escape time.                                                 *)
(* RenderSpec gen_image on small images and color_point on chosen points,  *)
(*            escape_time followed one loop turn at a time.                *)
(***************************************************************************)
EXTENDS Integers, Sequences, FiniteSets, TLC

VARIABLES
    focus_x, focus_y, range, width, height, algorithm, zoom, frames, threads,
    full_multiprocess_loops, remainder,
    i, y, channels,
    pc,          \* the main thread's position in main
    workers,     \* workers[k+1]: the thread spawned for frame k
    chan,        \* chan[k+1]: the buffers in flight on frame k's channel
    stdout,      \* the buffers written to the output sink, in order
    written,     \* history: the frame index of each buffer of stdout
    range_0,     \* history: range as parse_args returned it
    exit_code,   \* the process's exit status, NotExited while it runs
    call, ret,   \* the pure function applied and what it returned
    argv,        \* env::args().skip(1): the command line's arguments
    arg_k,       \* parse_args: the position in argv of the next argument
    state,       \* parse_args: the ArgState
    stderr,      \* the messages printed to the error stream
    rpc,         \* RenderSpec: the position in gen_image / color_point
    gi,          \* gen_image's arguments and locals
    et           \* escape_time's arguments and locals

cfgvars == <<focus_x, focus_y, width, height, algorithm, zoom, frames, threads, range_0>>
mainvars == <<range, full_multiprocess_loops, remainder, i, y, channels, pc>>
parsevars == <<argv, arg_k, state, stderr>>
rendervars == <<rpc, gi, et>>
purevars == <<call, ret, parsevars, rendervars>>
worldvars == <<stdout, written, exit_code>>
vars == <<cfgvars, mainvars, workers, chan, stdout, written, exit_code, purevars>>

---------------------------------------------------------------------------
(* Bounds of the model. *)

MaxFrames == 5
MaxThreads == 3
\* f64 has 53 significand bits; the model rounds to MantBits of them, to
\* nearest, ties to even, as the hardware does. The exponent is unbounded.
MantBits == 4

---------------------------------------------------------------------------
(* f64 *)

RECURSIVE Pow2(_)
Pow2(k) == IF k = 0 THEN 1 ELSE 2 * Pow2(k - 1)

RECURSIVE BitLen(_)
BitLen(n) == IF n = 0 THEN 0 ELSE 1 + BitLen(n \div 2)

\* The f64 nearest to (-1)^neg * n * 2^e.
RoundF64(neg, n, e) ==
    IF n = 0 THEN [neg |-> neg, mant |-> 0, exp |-> 0]
    ELSE LET len == BitLen(n) IN
         IF len <= MantBits
         THEN [neg |-> neg, mant |-> n * Pow2(MantBits - len), exp |-> e - (MantBits - len)]
         ELSE LET shift == len - MantBits
                  q == n \div Pow2(shift)
                  r == n % Pow2(shift)
                  up == (2 * r > Pow2(shift)) \/ (2 * r = Pow2(shift) /\ q % 2 = 1)
                  m == IF up THEN q + 1 ELSE q
              IN  IF m = Pow2(MantBits)
                  THEN [neg |-> neg, mant |-> Pow2(MantBits - 1), exp |-> e + shift + 1]
                  ELSE [neg |-> neg, mant |-> m, exp |-> e + shift]

F64FromInt(n) == RoundF64(n < 0, IF n < 0 THEN -n ELSE n, 0)

\* n / 2^k
F64Dyadic(n, k) == RoundF64(n < 0, IF n < 0 THEN -n ELSE n, -k)

\* An infinity or a NaN: what a division by zero yields, and every
\* operation on one.
NonFinite == [neg |-> FALSE, mant |-> -1, exp |-> 0]
IsFinite(a) == a.mant >= 0

F64Mul(a, b) ==
    IF ~IsFinite(a) \/ ~IsFinite(b) THEN NonFinite
    ELSE RoundF64(a.neg # b.neg, a.mant * b.mant, a.exp + b.exp)

Signed(a) == IF a.neg THEN -a.mant ELSE a.mant
Abs(n) == IF n < 0 THEN -n ELSE n

\* a + b. Past 2 * MantBits + 2 binary places apart, the smaller operand is
\* below a quarter of the last place kept and only its sign matters.
F64Add(a, b) ==
    IF ~IsFinite(a) \/ ~IsFinite(b) THEN NonFinite
    ELSE IF a.mant = 0 THEN b
    ELSE IF b.mant = 0 THEN a
    ELSE LET hi == IF a.exp >= b.exp THEN a ELSE b
             lo == IF a.exp >= b.exp THEN b ELSE a
             d == hi.exp - lo.exp
             far == d > 2 * MantBits + 2
             sum == IF far
                    THEN Signed(hi) * Pow2(MantBits + 2) + (IF lo.neg THEN -1 ELSE 1)
                    ELSE Signed(hi) * Pow2(d) + Signed(lo)
             e == IF far THEN hi.exp - (MantBits + 2) ELSE lo.exp
         IN  RoundF64(sum < 0, Abs(sum), e)

F64Neg(a) == IF IsFinite(a) THEN [a EXCEPT !.neg = ~a.neg] ELSE NonFinite

F64Sub(a, b) == F64Add(a, F64Neg(b))

\* a / b: the quotient to two bits more than the significand holds, and a
\* sticky bit for the remainder.
F64Div(a, b) ==
    IF ~IsFinite(a) \/ ~IsFinite(b) \/ b.mant = 0 THEN NonFinite
    ELSE IF a.mant = 0 THEN [neg |-> a.neg # b.neg, mant |-> 0, exp |-> 0]
    ELSE LET k == MantBits + 2
             q == (a.mant * Pow2(k)) \div b.mant
             sticky == IF (a.mant * Pow2(k)) % b.mant = 0 THEN 0 ELSE 1
         IN  RoundF64(a.neg # b.neg, 2 * q + sticky, a.exp - b.exp - (k + 1))

\* a >= b, for finite a and b: the sign of the difference, which rounding
\* keeps.
F64Ge(a, b) ==
    LET diff == F64Sub(a, b)
    IN  diff.mant = 0 \/ ~diff.neg

F64Gt(a, b) ==
    LET diff == F64Sub(a, b)
    IN  diff.mant # 0 /\ ~diff.neg

---------------------------------------------------------------------------
(* The configurations explored: what parse_args may return. *)

FrameChoices == 0..MaxFrames
ThreadChoices == 0..MaxThreads
RangeChoices == {F64FromInt(4), F64FromInt(3)}
ZoomChoices == {F64Dyadic(15, 4), F64Dyadic(3, 1)}

NoCall == [fn |-> "none", arg |-> <<>>]

\* parse_args has returned: nothing of the command line is left to read.
ParseArgsOver == argv = <<>> /\ arg_k = 1 /\ state = "Initial" /\ stderr = <<>>

\* No call of gen_image or color_point is being followed step by step.
NoFrame == <<>>
RenderIdle == rpc = "idle" /\ gi = NoFrame /\ et = NoFrame
NotExited == -1

---------------------------------------------------------------------------
(* Worker threads *)

\* gen_image is a function of its arguments alone and performs no I/O: the
\* buffer a worker holds is identified by the call that produced it.
gen_image(fx, fy, r, w, h, alg) ==
    [focus_x |-> fx, focus_y |-> fy, range |-> r, width |-> w, height |-> h,
     algorithm |-> alg]

Dispatched == DOMAIN workers

\* The range a worker's closure computes with: the copy moved into it.
shared_range(w) == range
captured_range(w) == workers[w].range

\* The threads run until the process exits.
ProcessAlive == exit_code = NotExited

\* The main thread drops every receiver it still holds when it unwinds.
ReceiverDropped(w) == pc = "panicked"

\* thread::spawn(move || { let buffer = gen_image(...); ... }): the call.
GenImage(w) ==
    /\ ProcessAlive
    /\ w \in Dispatched
    /\ workers[w].state = "spawned"
    /\ workers' = [workers EXCEPT ![w].state = "computed",
                                  ![w].buffer = <<gen_image(workers[w].focus_x, workers[w].focus_y,
                                                            captured_range(w), workers[w].width,
                                                            workers[w].height, workers[w].algorithm)>>]
    /\ UNCHANGED <<cfgvars, mainvars, chan, worldvars, purevars>>

\* The worker panics inside gen_image: its sender is dropped, nothing sent.
WorkerPanic(w) ==
    /\ ProcessAlive
    /\ w \in Dispatched
    /\ workers[w].state = "spawned"
    /\ workers' = [workers EXCEPT ![w].state = "panicked"]
    /\ UNCHANGED <<cfgvars, mainvars, chan, worldvars, purevars>>

\* A worker that writes its buffer itself instead of sending it.
SendWritesSink(w) ==
    /\ ProcessAlive
    /\ w \in Dispatched
    /\ workers[w].state = "computed"
    /\ workers' = [workers EXCEPT ![w].state = "sent", ![w].sends = @ + 1]
    /\ stdout' = stdout \o workers[w].buffer
    /\ written' = Append(written, w - 1)
    /\ chan' = [chan EXCEPT ![w] = @ \o workers[w].buffer]
    /\ UNCHANGED <<cfgvars, mainvars, exit_code, purevars>>

\* tx.send(buffer).unwrap(): an Err (the receiver is gone) panics.
Send(w) ==
    /\ ProcessAlive
    /\ w \in Dispatched
    /\ workers[w].state = "computed"
    /\ IF ReceiverDropped(w)
       THEN /\ workers' = [workers EXCEPT ![w].state = "panicked"]
            /\ chan' = chan
       ELSE /\ workers' = [workers EXCEPT ![w].state = "sent", ![w].sends = @ + 1]
            /\ chan' = [chan EXCEPT ![w] = @ \o workers[w].buffer]
    /\ UNCHANGED <<cfgvars, mainvars, worldvars, purevars>>

\* The closure returns and the thread ends.
WorkerExit(w) ==
    /\ ProcessAlive
    /\ w \in Dispatched
    /\ workers[w].state = "sent"
    /\ workers' = [workers EXCEPT ![w].state = "terminated"]
    /\ UNCHANGED <<cfgvars, mainvars, chan, worldvars, purevars>>

---------------------------------------------------------------------------
(* The main thread *)

\* let remainder = frames - (full_multiprocess_loops * threads);
RemainderUnscaled(f, loops, t) == f - loops
Remainder(f, loops, t) == f - (loops * t)

\* A main whose division yields 0 for a zero divisor instead of panicking.
StartUncheckedDivision ==
    /\ ProcessAlive
    /\ pc = "start"
    /\ full_multiprocess_loops' = IF threads = 0 THEN 0 ELSE frames \div threads
    /\ remainder' = IF threads = 0 THEN frames
                     ELSE Remainder(frames, frames \div threads, threads)
    /\ i' = 0
    /\ pc' = "loop"
    /\ UNCHANGED <<cfgvars, range, y, channels, workers, chan, worldvars, purevars>>

\* let full_multiprocess_loops = frames/threads; let remainder = ...
\* Integer division by zero panics.
Start ==
    /\ ProcessAlive
    /\ pc = "start"
    /\ IF threads = 0
       THEN /\ pc' = "panicked"
            /\ UNCHANGED <<full_multiprocess_loops, remainder, i>>
       ELSE /\ full_multiprocess_loops' = frames \div threads
            /\ remainder' = Remainder(frames, frames \div threads, threads)
            /\ i' = 0
            /\ pc' = "loop"
    /\ UNCHANGED <<cfgvars, range, y, channels, workers, chan, worldvars, purevars>>

\* for _i in 0..full_multiprocess_loops { let mut channels = Vec::new(); ...
\* and, the loop over, let mut channels = Vec::new() of the last batch.
LoopHead ==
    /\ ProcessAlive
    /\ pc = "loop"
    /\ channels' = <<>>
    /\ y' = 0
    /\ pc' = IF i < full_multiprocess_loops THEN "spawn" ELSE "rem_spawn"
    /\ UNCHANGED <<cfgvars, range, full_multiprocess_loops, remainder, i,
                   workers, chan, worldvars, purevars>>

\* The number of tasks of the batch being dispatched.
BatchSizeInclusive(here) == IF here = "spawn" THEN threads + 1 ELSE remainder + 1
BatchSize(here) == IF here = "spawn" THEN threads ELSE remainder

\* The batch a task dispatched now belongs to (0-based).
BatchIndex(here) == IF here = "spawn" THEN i ELSE full_multiprocess_loops

\* range *= zoom;
NextRangeFromFirst(r) == F64Mul(range_0, zoom)
NextRange(r) == F64Mul(r, zoom)

\* One turn of for _y in 0..n: a channel, a thread that owns copies of the
\* viewport and the sender, then range *= zoom.
SpawnTask(here, next) ==
    /\ ProcessAlive
    /\ pc = here
    /\ IF y < BatchSize(here)
       THEN /\ channels' = Append(channels, Len(workers) + 1)
            /\ chan' = Append(chan, <<>>)
            /\ workers' = Append(workers,
                   [state |-> "spawned", focus_x |-> focus_x, focus_y |-> focus_y,
                    range |-> range, width |-> width, height |-> height,
                    algorithm |-> algorithm, buffer |-> <<>>, sends |-> 0,
                    batch |-> BatchIndex(here)])
            /\ range' = NextRange(range)
            /\ y' = y + 1
            /\ pc' = here
       ELSE /\ pc' = next
            /\ UNCHANGED <<channels, chan, workers, range, y>>
    /\ UNCHANGED <<cfgvars, full_multiprocess_loops, remainder, i, worldvars, purevars>>

SpawnFull == SpawnTask("spawn", "recv")
SpawnRem == SpawnTask("rem_spawn", "rem_recv")

\* for rx in channels: the position in channels of the receiver taken next.
RecvLast(chs) == Len(chs)
RecvIndex(chs) == 1

RemoveAt(s, k) == SubSeq(s, 1, k - 1) \o SubSeq(s, k + 1, Len(s))

\* for rx in channels ends when every receiver has been taken.
DrainedButOne(chs) == Len(chs) <= 1
Drained(chs) == chs = <<>>

\* rx.recv().unwrap(): an Err (channel empty, sender gone) panics.
RecvErrorSkips == "skip"
OnRecvError == "panic"

\* One turn of for rx in channels: a blocking recv, then write_all.
\* sink_ok: whether the sink accepts the write.
Gather(here, sink_ok) ==
    /\ ProcessAlive
    /\ pc = here
    /\ ~Drained(channels)
    /\ LET k == RecvIndex(channels)
           w == channels[k]
       IN  IF chan[w] # <<>>
           THEN /\ chan' = [chan EXCEPT ![w] = Tail(@)]
                /\ channels' = RemoveAt(channels, k)
                /\ IF sink_ok
                   THEN /\ stdout' = Append(stdout, Head(chan[w]))
                        /\ written' = Append(written, w - 1)
                        /\ pc' = here
                   ELSE /\ pc' = "panicked"
                        /\ UNCHANGED <<stdout, written>>
           ELSE /\ workers[w].state = "panicked"
                /\ sink_ok
                /\ IF OnRecvError = "panic"
                   THEN pc' = "panicked" /\ channels' = channels
                   ELSE pc' = here /\ channels' = RemoveAt(channels, k)
                /\ UNCHANGED <<chan, stdout, written>>
    /\ UNCHANGED <<cfgvars, range, full_multiprocess_loops, remainder, i, y, workers,
                   exit_code, purevars>>

GatherFull == \E sink_ok \in BOOLEAN : Gather("recv", sink_ok)
GatherRem == \E sink_ok \in BOOLEAN : Gather("rem_recv", sink_ok)

\* The end of one turn of for _i in 0..full_multiprocess_loops.
EndBatch ==
    /\ ProcessAlive
    /\ pc = "recv"
    /\ Drained(channels)
    /\ i' = i + 1
    /\ pc' = "loop"
    /\ UNCHANGED <<cfgvars, range, full_multiprocess_loops, remainder, y, channels,
                   workers, chan, worldvars, purevars>>

\* main returns.
Return ==
    /\ ProcessAlive
    /\ pc = "rem_recv"
    /\ Drained(channels)
    /\ pc' = "returned"
    /\ UNCHANGED <<cfgvars, range, full_multiprocess_loops, remainder, i, y, channels,
                   workers, chan, worldvars, purevars>>

\* The main thread is over: the process exits, and its threads with it, with
\* status 0 after a return and 101 after a panic.
ProcessExit ==
    /\ ProcessAlive
    /\ pc \in {"returned", "panicked"}
    /\ exit_code' = IF pc = "returned" THEN 0 ELSE 101
    /\ UNCHANGED <<cfgvars, mainvars, workers, chan, stdout, written, purevars>>

---------------------------------------------------------------------------
(* The scheduler's specification *)

Init ==
    /\ focus_x = F64FromInt(-1)
    /\ focus_y = F64FromInt(0)
    /\ range \in RangeChoices
    /\ range_0 = range
    /\ width = 2
    /\ height = 1
    /\ algorithm = "Mandelbrot"
    /\ zoom \in ZoomChoices
    /\ frames \in FrameChoices
    /\ threads \in ThreadChoices
    /\ full_multiprocess_loops = 0
    /\ remainder = 0
    /\ i = 0
    /\ y = 0
    /\ channels = <<>>
    /\ pc = "start"
    /\ workers = <<>>
    /\ chan = <<>>
    /\ stdout = <<>>
    /\ written = <<>>
    /\ exit_code = NotExited
    /\ call = NoCall
    /\ ret = <<>>
    /\ ParseArgsOver
    /\ RenderIdle

MainNext ==
    \/ Start
    \/ LoopHead
    \/ SpawnFull
    \/ GatherFull
    \/ EndBatch
    \/ SpawnRem
    \/ GatherRem
    \/ Return
    \/ ProcessExit

WorkerNext(w) ==
    \/ GenImage(w)
    \/ Send(w)
    \/ WorkerExit(w)

Workers == 1..MaxFrames

Next ==
    \/ MainNext
    \/ \E w \in Workers : WorkerNext(w)
    \/ \E w \in Workers : WorkerPanic(w)

Spec == Init /\ [][Next]_vars

\* A runnable thread eventually runs; nothing obliges a worker to panic or
\* the sink to fail.
LiveSpec ==
    /\ Spec
    /\ WF_vars(MainNext)
    /\ \A w \in Workers : WF_vars(WorkerNext(w))

---------------------------------------------------------------------------
(* The colour mapper (src/mandelbrot.rs) *)

MAX_ATTEMPTS == 4000

\* Option<u32>: None is <<>>, Some(t) is <<t>>.
None == <<>>
Some(t) == <<t>>

min(a, b) == IF a <= b THEN a ELSE b

\* u32 -> u8 by try_into().unwrap(): a value above 255 panics.
Panic == <<>>
FitsU8(v) == v \in 0..255

\* A colorize that wraps a channel to 8 bits instead of clamping it.
colorize_wrapping(e_time) ==
    LET half_time == e_time \div 2
        red == half_time % 256
        green == IF half_time < 256 THEN 0 ELSE min(half_time, 255)
        blue == IF half_time < 512 THEN 0 ELSE min(half_time, 255)
    IN  <<red, green, blue>>

\* A colorize whose blue channel starts where the green one does.
colorize_blue_early(e_time) ==
    LET half_time == e_time \div 2
        red == min(half_time, 255)
        green == IF half_time < 256 THEN 0 ELSE min(half_time, 255)
        blue == IF half_time < 256 THEN 0 ELSE min(half_time, 255)
    IN  <<red, green, blue>>

colorize(e_time) ==
    LET half_time == e_time \div 2
        red == min(half_time, 255)
        green == IF half_time < 256 THEN 0 ELSE min(half_time, 255)
        blue == IF half_time < 512 THEN 0 ELSE min(half_time, 255)
    IN  IF FitsU8(red) /\ FitsU8(green) /\ FitsU8(blue)
        THEN <<red, green, blue>>
        ELSE Panic

\* color_point's match on what escape_time returned.
color_of(time) == IF time = None THEN <<0, 0, 0>> ELSE colorize(time[1])

EscapeTimes == 0..(MAX_ATTEMPTS - 1)

CallColorize ==
    /\ call = NoCall
    /\ \E n \in EscapeTimes :
          /\ call' = [fn |-> "colorize", arg |-> <<n>>]
          /\ ret' = colorize(n)
    /\ UNCHANGED <<cfgvars, mainvars, workers, chan, worldvars, parsevars, rendervars>>

CallColorPoint ==
    /\ call = NoCall
    /\ \E time \in {None} \cup {Some(n) : n \in EscapeTimes} :
          /\ call' = [fn |-> "color_point", arg |-> time]
          /\ ret' = color_of(time)
    /\ UNCHANGED <<cfgvars, mainvars, workers, chan, worldvars, parsevars, rendervars>>

ColorInit ==
    /\ focus_x = F64FromInt(-1)
    /\ focus_y = F64FromInt(0)
    /\ range = F64FromInt(4)
    /\ range_0 = range
    /\ width = 2
    /\ height = 1
    /\ algorithm = "Mandelbrot"
    /\ zoom = F64Dyadic(15, 4)
    /\ frames = 1
    /\ threads = 1
    /\ full_multiprocess_loops = 0
    /\ remainder = 0
    /\ i = 0
    /\ y = 0
    /\ channels = <<>>
    /\ pc = "start"
    /\ workers = <<>>
    /\ chan = <<>>
    /\ stdout = <<>>
    /\ written = <<>>
    /\ exit_code = NotExited
    /\ call = NoCall
    /\ ret = <<>>
    /\ ParseArgsOver
    /\ RenderIdle

ColorNext ==
    \/ CallColorize
    \/ CallColorPoint

ColorSpec == ColorInit /\ [][ColorNext]_vars

---------------------------------------------------------------------------
(* The renderer: gen_image (src/main.rs) with color_point, escape_time and
   recursion (src/mandelbrot.rs), followed step by step *)

MaxWidth == 3
MaxHeight == 2

\* format!("{}", n) of a u32: its decimal digits in ASCII.
RECURSIVE Decimal(_)
Decimal(n) ==
    IF n < 10 THEN <<48 + n>> ELSE Decimal(n \div 10) \o <<48 + (n % 10)>>

\* format!("P6\n{} {}\n255\n", width, height), as bytes.
Header(w, h) ==
    <<80, 54, 10>> \o Decimal(w) \o <<32>> \o Decimal(h) \o <<10, 50, 53, 53, 10>>

NoTrailer == <<>>

\* b"\n"[0], pushed after the last row.
Trailer == <<10>>

start_x_at_focus(fx, r) == fx

\* start_x: focus_x - (range / 2f64).
start_x_of(fx, r) == F64Sub(fx, F64Div(r, F64FromInt(2)))

\* step_size: range / f64::from(width).
step_size_of(r, w) == F64Div(r, F64FromInt(w))

\* The first row's y: focus_y + (step_size * f64::from(height) / 2f64).
first_y_of(fy, step, h) ==
    F64Add(fy, F64Div(F64Mul(step, F64FromInt(h)), F64FromInt(2)))

powi2(a) == F64Mul(a, a)

\* recursion: one application of z <- z^2 + c, on the real and imaginary
\* parts.
recursion(z_real, z_imag, cx, cy) ==
    LET new_real == F64Add(F64Sub(powi2(z_real), powi2(z_imag)), cx)
        new_imag == F64Add(F64Mul(F64Mul(F64FromInt(2), z_real), z_imag), cy)
    IN  <<new_real, new_imag>>

EscapedStrict(z_real, z_imag) ==
    F64Gt(F64Add(powi2(z_real), powi2(z_imag)), F64FromInt(4))

\* The test of escape_time: z_real.powi(2) + z_imag.powi(2) >= 4f64.
Escaped(z_real, z_imag) ==
    F64Ge(F64Add(powi2(z_real), powi2(z_imag)), F64FromInt(4))

\* The calls followed: gen_image on small images around the default focus
\* point, and color_point on points inside, outside and on the radius-2
\* circle.
RenderFocus == {<<F64FromInt(-1), F64FromInt(0)>>}
RenderRanges == {F64FromInt(4), F64FromInt(8)}
WideWidth == 10
RenderSizes ==
    ((0..MaxWidth) \X (0..MaxHeight)) \cup {<<WideWidth, 1>>}
GenImageCalls ==
    { [fn |-> "gen_image",
       arg |-> [focus_x |-> f[1], focus_y |-> f[2], range |-> r,
                width |-> s[1], height |-> s[2], algorithm |-> "Mandelbrot"]] :
      f \in RenderFocus, r \in RenderRanges, s \in RenderSizes }
PointChoices ==
    {<<F64FromInt(0), F64FromInt(0)>>, <<F64FromInt(2), F64FromInt(2)>>,
     <<F64FromInt(-2), F64FromInt(0)>>, <<F64FromInt(0), F64FromInt(1)>>,
     <<F64Dyadic(1, 1), F64Dyadic(1, 1)>>}
ColorPointCalls ==
    { [fn |-> "color_point", arg |-> p] : p \in PointChoices }

\* color_point(x, y) is entered: escape_time starts from z = 0, n = 0.
\* time is read only once the loop is over.
EscapeTimeFrame(px, py) ==
    [x |-> px, y |-> py, z_real |-> F64FromInt(0), z_imag |-> F64FromInt(0),
     n |-> 0, time |-> None]

\* gen_image up to its loops: the header, the step and the first sample.
GenImageEnter ==
    /\ rpc = "gen_image"
    /\ LET a == call.arg
           step_size == step_size_of(a.range, a.width)
           start_x == start_x_of(a.focus_x, a.range)
       IN  gi' = [focus_x |-> a.focus_x, focus_y |-> a.focus_y,
                  range |-> a.range, width |-> a.width, height |-> a.height,
                  buffer |-> Header(a.width, a.height),
                  step_size |-> step_size, start_x |-> start_x,
                  x |-> start_x,
                  y |-> first_y_of(a.focus_y, step_size, a.height),
                  h |-> 0, w |-> 0,
                  samples |-> <<>>, colors |-> <<>>]
    /\ rpc' = "for_h"
    /\ UNCHANGED <<cfgvars, mainvars, workers, chan, worldvars, parsevars,
                   call, ret, et>>

\* for _h in 0..height: the next row, or the trailing newline and the
\* return of the buffer.
ForH ==
    /\ rpc = "for_h"
    /\ IF gi.h < gi.height
       THEN /\ gi' = [gi EXCEPT !.w = 0]
            /\ rpc' = "for_w"
            /\ ret' = ret
       ELSE /\ gi' = [gi EXCEPT !.buffer = @ \o Trailer]
            /\ ret' = gi'.buffer
            /\ rpc' = "done"
    /\ UNCHANGED <<cfgvars, mainvars, workers, chan, worldvars, parsevars,
                   call, et>>

\* for _w in 0..width: the call of color_point(x, y) for the next pixel, or
\* the end of the row (x = start_x; y -= step_size).
ForW ==
    /\ rpc = "for_w"
    /\ IF gi.w < gi.width
       THEN /\ et' = EscapeTimeFrame(gi.x, gi.y)
            /\ gi' = [gi EXCEPT !.samples = Append(@, <<gi.x, gi.y>>)]
            /\ rpc' = "escape_time"
       ELSE /\ gi' = [gi EXCEPT !.x = gi.start_x,
                                !.y = F64Sub(gi.y, gi.step_size),
                                !.h = @ + 1]
            /\ rpc' = "for_h"
            /\ et' = et
    /\ UNCHANGED <<cfgvars, mainvars, workers, chan, worldvars, parsevars,
                   call, ret>>

\* color_point called on its own.
ColorPointEnter ==
    /\ rpc = "color_point"
    /\ et' = EscapeTimeFrame(call.arg[1], call.arg[2])
    /\ rpc' = "escape_time"
    /\ UNCHANGED <<cfgvars, mainvars, workers, chan, worldvars, parsevars,
                   call, ret, gi>>

\* One turn of for n in 0..MAX_ATTEMPTS: z = recursion(z, c), then the
\* test, returning Some(n) when it holds; None when the range is used up.
EscapeTimeLoop ==
    /\ rpc = "escape_time"
    /\ IF et.n < MAX_ATTEMPTS
       THEN LET z == recursion(et.z_real, et.z_imag, et.x, et.y)
            IN  IF Escaped(z[1], z[2])
                THEN /\ et' = [et EXCEPT !.z_real = z[1], !.z_imag = z[2],
                                         !.time = Some(et.n)]
                     /\ rpc' = "color_point_match"
                ELSE /\ et' = [et EXCEPT !.z_real = z[1], !.z_imag = z[2],
                                         !.n = @ + 1]
                     /\ rpc' = rpc
       ELSE /\ et' = [et EXCEPT !.time = None]
            /\ rpc' = "color_point_match"
    /\ UNCHANGED <<cfgvars, mainvars, workers, chan, worldvars, parsevars,
                   call, ret, gi>>

\* The match of color_point on escape_time's result and its return: to
\* gen_image, which pushes the three bytes and steps x, or to the caller.
ColorPointReturn ==
    /\ rpc = "color_point_match"
    /\ LET color == color_of(et.time)
       IN  IF call.fn = "gen_image"
           THEN /\ gi' = [gi EXCEPT !.buffer = @ \o color,
                                    !.colors = Append(@, color),
                                    !.x = F64Add(gi.x, gi.step_size),
                                    !.w = @ + 1]
                /\ rpc' = "for_w"
                /\ et' = NoFrame
                /\ ret' = ret
           ELSE /\ ret' = color
                /\ rpc' = "done"
                /\ UNCHANGED <<gi, et>>
    /\ UNCHANGED <<cfgvars, mainvars, workers, chan, worldvars, parsevars,
                   call>>

RenderInit ==
    /\ focus_x = F64FromInt(-1)
    /\ focus_y = F64FromInt(0)
    /\ range = F64FromInt(4)
    /\ range_0 = range
    /\ width = 2
    /\ height = 1
    /\ algorithm = "Mandelbrot"
    /\ zoom = F64Dyadic(15, 4)
    /\ frames = 1
    /\ threads = 1
    /\ full_multiprocess_loops = 0
    /\ remainder = 0
    /\ i = 0
    /\ y = 0
    /\ channels = <<>>
    /\ pc = "start"
    /\ workers = <<>>
    /\ chan = <<>>
    /\ stdout = <<>>
    /\ written = <<>>
    /\ exit_code = NotExited
    /\ ParseArgsOver
    /\ call \in GenImageCalls \cup ColorPointCalls
    /\ ret = <<>>
    /\ rpc = call.fn
    /\ gi = NoFrame
    /\ et = NoFrame

RenderNext ==
    \/ GenImageEnter
    \/ ForH
    \/ ForW
    \/ ColorPointEnter
    \/ EscapeTimeLoop
    \/ ColorPointReturn

RenderSpec == RenderInit /\ [][RenderNext]_vars

---------------------------------------------------------------------------
(* parse_args and help_args (src/main.rs) *)

MaxArgs == 3

\* The f64 nearest to num / den (num >= 0, den > 0): the quotient to two
\* bits more than the significand holds, and a sticky bit for what is left.
F64FromRatio(num, den) ==
    LET k == MantBits + 2 + BitLen(den)
        q == (num * Pow2(k)) \div den
        sticky == IF (num * Pow2(k)) % den = 0 THEN 0 ELSE 1
    IN  RoundF64(FALSE, 2 * q + sticky, -(k + 1))

\* The flags of the match in parse_args and the ArgState each one sets.
FlagState ==
    [t \in {"-x", "--x_coor", "-y", "--y_coor", "-r", "--range", "-w", "--width",
            "-ht", "--height", "-a", "--algorithm", "-z", "--zoom",
            "-f", "--frames", "-t", "--threads"} |->
        CASE t \in {"-x", "--x_coor"} -> "FocalX"
          [] t \in {"-y", "--y_coor"} -> "FocalY"
          [] t \in {"-r", "--range"} -> "RangeWidth"
          [] t \in {"-w", "--width"} -> "ImageWidth"
          [] t \in {"-ht", "--height"} -> "ImageHeight"
          [] t \in {"-a", "--algorithm"} -> "Algorithm"
          [] t \in {"-z", "--zoom"} -> "Zoom"
          [] t \in {"-f", "--frames"} -> "FrameCount"
          [] t \in {"-t", "--threads"} -> "ThreadCount"]

HelpFlags == {"-h", "--help"}
AlgorithmNames == {"mandelbrot", "Mandelbrot"}

\* The arguments the command lines explored are made of.
ValueTokens == {"0", "2", "0.5", "abc", "mandelbrot"}
ArgTokens ==
    {"-x", "-y", "-r", "-w", "-ht", "-a", "-z", "-f", "-t", "-h", "--help"}
        \cup ValueTokens
ArgLists == UNION {[1..n -> ArgTokens] : n \in 0..MaxArgs}

\* str::parse::<f64> and str::parse::<u32> on these arguments: Ok(v) is
\* <<v>>, Err is <<>>.
ParseF64(t) ==
    CASE t = "0" -> <<F64FromInt(0)>>
      [] t = "2" -> <<F64FromInt(2)>>
      [] t = "0.5" -> <<F64Dyadic(1, 1)>>
      [] OTHER -> <<>>

ParseU32(t) ==
    CASE t = "0" -> <<0>>
      [] t = "2" -> <<2>>
      [] OTHER -> <<>>

F64States == {"FocalX", "FocalY", "RangeWidth", "Zoom"}
U32States == {"ImageWidth", "ImageHeight", "FrameCount", "ThreadCount"}

HelpOutput == [text |-> "usage: mandelart [options] ..."]

\* The values parse_args starts from.
Defaults ==
    [focus_x |-> F64FromInt(-1), focus_y |-> F64FromInt(0), range |-> F64FromInt(4),
     width |-> 1920, height |-> 1080, algorithm |-> "Mandelbrot",
     zoom |-> F64FromRatio(99, 100), frames |-> 1, threads |-> 1]

\* The settings, as one record.
Settings ==
    [focus_x |-> focus_x, focus_y |-> focus_y, range |-> range, width |-> width,
     height |-> height, algorithm |-> algorithm, zoom |-> zoom, frames |-> frames,
     threads |-> threads]

SetSettings(c) ==
    /\ focus_x' = c.focus_x
    /\ focus_y' = c.focus_y
    /\ range' = c.range
    /\ width' = c.width
    /\ height' = c.height
    /\ algorithm' = c.algorithm
    /\ zoom' = c.zoom
    /\ frames' = c.frames
    /\ threads' = c.threads

\* The setting an ArgState's value goes to.
SettingOf ==
    [st \in F64States \cup U32States |->
        CASE st = "FocalX" -> "focus_x"
          [] st = "FocalY" -> "focus_y"
          [] st = "RangeWidth" -> "range"
          [] st = "Zoom" -> "zoom"
          [] st = "ImageWidth" -> "width"
          [] st = "ImageHeight" -> "height"
          [] st = "FrameCount" -> "frames"
          [] st = "ThreadCount" -> "threads"]

\* The ArgState after a value has been consumed: no arm of the inner match
\* assigns state.
StateResetAfterValue(st) == "Initial"
StateAfterValue(st) == st

\* arg.parse().expect(...): an Err panics.
ParseErrorIgnored == "ignore"
OnParseError == "panic"

\* help_args: the usage on the output stream, then std::process::exit(0).
HelpArgs ==
    /\ stdout' = Append(stdout, HelpOutput)
    /\ exit_code' = 0
    /\ pc' = "help_args"

\* One turn of for arg in env::args().skip(1).
ParseArg ==
    /\ ProcessAlive
    /\ pc = "parse_args"
    /\ arg_k <= Len(argv)
    /\ LET arg == argv[arg_k]
           parsed == IF state \in F64States THEN ParseF64(arg)
                     ELSE IF state \in U32States THEN ParseU32(arg)
                     ELSE <<>>
       IN  /\ arg_k' = arg_k + 1
           /\ CASE arg \in DOMAIN FlagState ->
                     /\ state' = FlagState[arg]
                     /\ UNCHANGED <<focus_x, focus_y, range, width, height, algorithm,
                                    zoom, frames, threads, stdout, exit_code, pc, stderr>>
                [] arg \in HelpFlags ->
                     /\ HelpArgs
                     /\ UNCHANGED <<focus_x, focus_y, range, width, height, algorithm,
                                    zoom, frames, threads, state, stderr>>
                [] OTHER ->
                     CASE state \in F64States \cup U32States ->
                            IF parsed # <<>>
                            THEN /\ SetSettings([Settings EXCEPT ![SettingOf[state]] = parsed[1]])
                                 /\ state' = StateAfterValue(state)
                                 /\ UNCHANGED <<stdout, exit_code, pc, stderr>>
                            ELSE IF OnParseError = "panic"
                            THEN /\ pc' = "panicked"
                                 /\ stderr' = Append(stderr,
                                        IF state \in F64States
                                        THEN "must be a floating point value!"
                                        ELSE "must be a positive integral value!")
                                 /\ UNCHANGED <<focus_x, focus_y, range, width, height,
                                                algorithm, zoom, frames, threads, state,
                                                stdout, exit_code>>
                            ELSE UNCHANGED <<focus_x, focus_y, range, width, height,
                                             algorithm, zoom, frames, threads, state,
                                             stdout, exit_code, pc, stderr>>
                       [] state = "Algorithm" ->
                            IF arg \in AlgorithmNames
                            THEN /\ SetSettings([Settings EXCEPT !.algorithm = "Mandelbrot"])
                                 /\ state' = StateAfterValue(state)
                                 /\ UNCHANGED <<stdout, exit_code, pc, stderr>>
                            ELSE /\ stderr' = Append(stderr, "Error unknown algorithm")
                                 /\ HelpArgs
                                 /\ UNCHANGED <<focus_x, focus_y, range, width, height,
                                                algorithm, zoom, frames, threads, state>>
                       [] state = "Initial" ->
                            /\ stderr' = Append(stderr, "Error unknown argument")
                            /\ HelpArgs
                            /\ UNCHANGED <<focus_x, focus_y, range, width, height,
                                           algorithm, zoom, frames, threads, state>>
    /\ UNCHANGED <<argv, range_0, full_multiprocess_loops, remainder, i, y, channels,
                   workers, chan, written, call, ret, rendervars>>

\* parse_args returns its tuple and main binds it.
ParseReturn ==
    /\ ProcessAlive
    /\ pc = "parse_args"
    /\ arg_k > Len(argv)
    /\ range_0' = range
    /\ pc' = "start"
    /\ UNCHANGED <<focus_x, focus_y, range, width, height, algorithm, zoom, frames, threads,
                   full_multiprocess_loops, remainder, i, y, channels,
                   workers, chan, worldvars, purevars>>

ParseInit ==
    /\ argv \in ArgLists
    /\ arg_k = 1
    /\ state = "Initial"
    /\ stderr = <<>>
    /\ focus_x = Defaults.focus_x
    /\ focus_y = Defaults.focus_y
    /\ range = Defaults.range
    /\ range_0 = Defaults.range
    /\ width = Defaults.width
    /\ height = Defaults.height
    /\ algorithm = Defaults.algorithm
    /\ zoom = Defaults.zoom
    /\ frames = Defaults.frames
    /\ threads = Defaults.threads
    /\ full_multiprocess_loops = 0
    /\ remainder = 0
    /\ i = 0
    /\ y = 0
    /\ channels = <<>>
    /\ pc = "parse_args"
    /\ workers = <<>>
    /\ chan = <<>>
    /\ stdout = <<>>
    /\ written = <<>>
    /\ exit_code = NotExited
    /\ call = NoCall
    /\ ret = <<>>
    /\ RenderIdle

ParseNext ==
    \/ ParseArg
    \/ ParseReturn
    \/ Next

ParseSpec == ParseInit /\ [][ParseNext]_vars

---------------------------------------------------------------------------
(* Properties of the scheduler *)

IsPrefix(s, t) == Len(s) <= Len(t) /\ SubSeq(t, 1, Len(s)) = s

WrittenSet == {written[k] : k \in DOMAIN written}

Computing == {w \in Dispatched : workers[w].state = "spawned"}

InBatch(b) == {w \in Dispatched : workers[w].batch = b}

\* A worker died without having sent its buffer.
FailedBeforeSend(w) == workers[w].state = "panicked" /\ workers[w].sends = 0

\* The run met a failure: a worker panicked, or the main thread did (the sink
\* refused a write, or a result never arrived).
RunFailed == pc = "panicked" \/ \E w \in Dispatched : workers[w].state = "panicked"

\* range multiplied by zoom k times, one multiplication after the other.
RECURSIVE ZoomTimes(_, _)
ZoomTimes(r, k) == IF k = 0 THEN r ELSE F64Mul(ZoomTimes(r, k - 1), zoom)

\* What the run with threads = 1 writes: n batches of one task each, every
\* buffer written before the next task is dispatched.
RECURSIVE SingleWorkerOutput(_, _)
SingleWorkerOutput(n, r) ==
    IF n = 0 THEN <<>>
    ELSE <<gen_image(focus_x, focus_y, r, width, height, algorithm)>>
             \o SingleWorkerOutput(n - 1, F64Mul(r, zoom))

\* C1: whatever the thread count (>= 1) and the order in which the workers
\* complete, the buffers written so far are the first buffers the
\* single-worker run of the same configuration writes, and a run that
\* returns has written exactly that run's sequence.
C1_SameOutputAsSingleWorker ==
    threads >= 1 =>
        /\ IsPrefix(stdout, SingleWorkerOutput(frames, range_0))
        /\ (pc = "returned" => stdout = SingleWorkerOutput(frames, range_0))

\* A run of several batches of several workers, one of them partial, returned.
C1_Witness ==
    /\ pc = "returned"
    /\ 1 < threads /\ threads < frames /\ frames % threads # 0
    /\ Len(stdout) = frames
    /\ stdout[1] # stdout[frames]

\* C2: the frames written are frames 0, 1, 2, ... in that order, each once:
\* the k-th buffer written is the one of the k-th task dispatched.
C2_WrittenInDispatchOrder ==
    /\ Len(stdout) = Len(written)
    /\ \A k \in DOMAIN written :
          /\ written[k] = k - 1
          /\ <<stdout[k]>> = workers[k].buffer

\* Frames were written although a later task of the batch completed before
\* an earlier one.
C2_Witness ==
    /\ Len(written) >= 2
    /\ \E w1, w2 \in Dispatched :
          /\ w1 < w2
          /\ workers[w1].batch = workers[w2].batch
          /\ workers[w1].state = "spawned"
          /\ workers[w2].state \in {"sent", "terminated"}

\* C3: the workers dispatched that have not finished gen_image are never
\* more than threads.
C3_AtMostThreadsComputing ==
    threads >= 1 => Cardinality(Computing) <= threads

\* A whole batch of several workers is computing at once.
C3_Witness ==
    /\ threads >= 2
    /\ Cardinality(Computing) = threads
    /\ Len(written) >= 1

\* The batches of a finished run: frames / threads batches of threads tasks,
\* then one of frames mod threads tasks, in that order, and frames buffers
\* written.
CompletedAsPlanned ==
    /\ pc = "returned"
    /\ \A b \in 0..((frames \div threads) - 1) : Cardinality(InBatch(b)) = threads
    /\ Cardinality(InBatch(frames \div threads)) = frames % threads
    /\ \A w \in Dispatched : workers[w].batch \in 0..(frames \div threads)
    /\ \A w1, w2 \in Dispatched : w1 < w2 => workers[w1].batch <= workers[w2].batch
    /\ Len(workers) = frames
    /\ Len(stdout) = frames

\* C4: with threads >= 1 and fair scheduling, a run in which no worker and
\* no write fails eventually returns, having dispatched frames / threads
\* batches of threads tasks, then one of frames mod threads, and having
\* written frames buffers.
C4_TerminatesAsPlanned ==
    (threads >= 1) => <>(RunFailed \/ CompletedAsPlanned)

\* A run of two full batches and a partial one returned.
C4_Witness ==
    /\ CompletedAsPlanned
    /\ threads = 2
    /\ frames = 5
    /\ ~RunFailed

\* C5: every buffer of a batch is written before a task of a later batch is
\* dispatched, so the workers computing at one time are of one batch.
C5_BatchDrainedBeforeNext ==
    /\ \A w1, w2 \in Dispatched :
          workers[w1].batch < workers[w2].batch => (w1 - 1) \in WrittenSet
    /\ \A w1, w2 \in Computing : workers[w1].batch = workers[w2].batch

\* A task of the second batch is computing, another of it not yet finished.
C5_Witness ==
    /\ threads >= 2
    /\ \E w1, w2 \in Computing : w1 # w2 /\ workers[w1].batch = 1 /\ workers[w2].batch = 1

\* C6: once a worker has died without sending, no frame from its own on is
\* ever written, no task of a later batch and no task beyond the frames
\* configured is dispatched, and main does not return.
C6_FailedFrameAborts ==
    \A w \in Dispatched :
        FailedBeforeSend(w) =>
            /\ \A k \in WrittenSet : k < w - 1
            /\ \A v \in Dispatched : workers[v].batch <= workers[w].batch
            /\ Len(workers) <= frames
            /\ pc # "returned"
            /\ exit_code # 0

\* Main panicked at a dead worker's frame while a later frame of the batch
\* was waiting on its channel, earlier frames written.
C6_Witness ==
    /\ pc = "panicked"
    /\ \E w, v \in Dispatched :
          /\ FailedBeforeSend(w)
          /\ w < v
          /\ chan[v] # <<>>
          /\ Len(written) = w - 1
          /\ w >= 2

\* C7: the sink changes only in a step of the main thread; a step of a
\* worker changes that worker and its own channel alone, a worker sends at
\* most one buffer, and what a worker was given at dispatch never changes.
C7_OnlyMainWritesSink ==
    [][/\ (stdout' # stdout => (pc \in {"recv", "rem_recv"} /\ workers' = workers))
       /\ \A w \in Dispatched :
             /\ workers'[w].sends <= 1
             /\ workers'[w].range = workers[w].range
             /\ workers'[w].focus_x = workers[w].focus_x
             /\ workers'[w].focus_y = workers[w].focus_y
             /\ workers'[w].width = workers[w].width
             /\ workers'[w].height = workers[w].height
             /\ workers'[w].algorithm = workers[w].algorithm
             /\ (workers'[w] # workers[w] =>
                    /\ \A v \in Dispatched \ {w} : workers'[v] = workers[v] /\ chan'[v] = chan[v]
                    /\ Len(workers') = Len(workers)
                    /\ Len(chan'[w]) >= Len(chan[w])
                    /\ UNCHANGED <<stdout, written, mainvars, cfgvars, exit_code>>)
       /\ \A w \in Dispatched :
             Len(chan'[w]) > Len(chan[w]) =>
                 /\ chan'[w] = workers[w].buffer
                 /\ workers[w].state = "computed"
                 /\ workers'[w].state = "sent"
      ]_vars

\* Two workers of a batch have each sent their buffer, and main has written.
C7_Witness ==
    /\ Len(stdout) >= 1
    /\ \E w1, w2 \in Dispatched :
          /\ w1 # w2
          /\ workers[w1].batch = workers[w2].batch
          /\ workers[w1].sends = 1
          /\ workers[w2].sends = 1
          /\ chan[w2] # <<>>

\* C8: frame k is generated from the configured focus, width and height and
\* from the configured range multiplied by zoom k times in sequence,
\* whatever the thread count and the batch the frame falls in.
C8_FrameViewport ==
    \A w \in Dispatched :
        /\ workers[w].range = ZoomTimes(range_0, w - 1)
        /\ workers[w].focus_x = focus_x
        /\ workers[w].focus_y = focus_y
        /\ workers[w].width = width
        /\ workers[w].height = height
        /\ workers[w].buffer \in
              {<<>>, <<gen_image(focus_x, focus_y, ZoomTimes(range_0, w - 1),
                                 width, height, algorithm)>>}

\* The frame of the final, partial batch has been generated after a full
\* batch of several workers.
C8_Witness ==
    /\ threads >= 2
    /\ remainder >= 1
    /\ \E w \in Dispatched :
          /\ workers[w].batch = full_multiprocess_loops
          /\ workers[w].batch >= 1
          /\ workers[w].buffer # <<>>
          /\ workers[w].range # range_0

---------------------------------------------------------------------------
(* Properties of the colour mapper *)

\* C9: colorize(n), with h = n / 2, is (min(h, 255), 0 if h < 256 else
\* min(h, 255), 0 if h < 512 else min(h, 255)) for every n in [0, 4000),
\* and color_point is (0, 0, 0) for a bounded point.
C9_ColorizeTable ==
    /\ (call.fn = "colorize" =>
          LET n == call.arg[1]
              h == n \div 2
          IN  ret = << IF h <= 255 THEN h ELSE 255,
                       IF h < 256 THEN 0 ELSE (IF h <= 255 THEN h ELSE 255),
                       IF h < 512 THEN 0 ELSE (IF h <= 255 THEN h ELSE 255) >>)
    /\ (call.fn = "color_point" /\ call.arg = <<>> => ret = <<0, 0, 0>>)

\* colorize was applied to an escape time past the blue threshold.
C9_Witness ==
    /\ call.fn = "colorize"
    /\ call.arg[1] = 1024
    /\ ret = <<255, 255, 255>>

\* colorize, tabulated over the escape times.
ColorTable == [n \in EscapeTimes |-> colorize(n)]

\* C10: every channel of colorize(m) is at most that of colorize(n) for
\* m <= n in [0, 4000), and no channel is above 255.
C10_ColorizeMonotone ==
    call.fn = "colorize" =>
        /\ Len(ret) = 3
        /\ \A c \in 1..3 : ret[c] \in 0..255
        /\ \A m \in 0..call.arg[1] :
              LET lower == ColorTable[m]
              IN  lower[1] <= ret[1] /\ lower[2] <= ret[2] /\ lower[3] <= ret[3]

\* colorize was applied to an escape time past the green threshold.
C10_Witness ==
    /\ call.fn = "colorize"
    /\ call.arg[1] = 600
    /\ ret = <<255, 255, 0>>

---------------------------------------------------------------------------
(* More properties of the scheduler *)

\* The workers that have not sent their buffer and have not died.
Unsent == {w \in Dispatched : workers[w].state \in {"spawned", "computed"}}

\* The worker threads that exist: spawned and not yet ended.
Live == {w \in Dispatched : workers[w].state \in {"spawned", "computed", "sent"}}

\* C15 as stated: no frame of a batch is written while another task of the
\* batch is still computing.
C15_WritesAfterWholeBatch ==
    \A k \in WrittenSet : \A w \in Dispatched :
        workers[w].batch = workers[k + 1].batch => workers[w].state # "spawned"

\* C15, amended: a frame is written only after its own task and every task
\* dispatched before it have sent their buffers; the tasks dispatched after
\* it in the batch may still be computing.
C15_WritesAfterEarlierTasks ==
    \A k \in WrittenSet : \A w \in 1..(k + 1) :
        /\ workers[w].sends = 1
        /\ workers[w].state \in {"sent", "terminated"}

\* The first frame of a batch is written while the batch's second task is
\* still in gen_image.
C15_Witness ==
    \E w \in Dispatched :
        /\ w >= 2
        /\ workers[w].state = "spawned"
        /\ workers[w - 1].batch = workers[w].batch
        /\ (w - 2) \in WrittenSet

\* C16 as stated: every worker thread of a batch has ended before a worker
\* of a later batch is spawned, and the live worker threads are never more
\* than threads.
C16_ThreadsEndBeforeNextBatch ==
    /\ \A w1, w2 \in Dispatched :
          workers[w1].batch < workers[w2].batch => workers[w1].state = "terminated"
    /\ (threads >= 1 => Cardinality(Live) <= threads)

\* C16, amended: a worker calls gen_image once and sends at most one buffer,
\* the one that call returned; every worker of a batch has sent its buffer
\* before a worker of a later batch is spawned, and the workers that have
\* not yet sent are never more than threads. The threads are detached and
\* never joined: one that has sent may outlive the start of the next batch.
C16_SentBeforeNextBatch ==
    /\ \A w \in Dispatched :
          /\ workers[w].sends <= 1
          /\ Len(workers[w].buffer) <= 1
          /\ Len(chan[w]) <= workers[w].sends
          /\ (workers[w].state \in {"sent", "terminated"} <=> workers[w].sends = 1)
          /\ (chan[w] # <<>> => chan[w] = workers[w].buffer)
    /\ \A w1, w2 \in Dispatched :
          workers[w1].batch < workers[w2].batch =>
              workers[w1].sends = 1 /\ chan[w1] = <<>>
    /\ (threads >= 1 => Cardinality(Unsent) <= threads)

\* A worker of the second batch is spawned while a thread of the first
\* batch, its buffer sent and written, has not ended yet.
C16_Witness ==
    \E w1, w2 \in Dispatched :
        /\ workers[w1].batch < workers[w2].batch
        /\ workers[w1].state = "sent"
        /\ workers[w2].state = "spawned"
        /\ Cardinality(Live) > threads

\* C18: with threads = 0 the run panics at the division, whatever frames
\* is: no worker is ever spawned and nothing is ever written.
C18_ZeroThreadsPanics ==
    threads = 0 =>
        /\ pc \in {"start", "panicked"}
        /\ workers = <<>>
        /\ chan = <<>>
        /\ stdout = <<>>
        /\ exit_code \in {NotExited, 101}

\* The run with threads = 0 and several frames asked for has ended, status 101.
C18_Witness ==
    /\ threads = 0
    /\ frames >= 2
    /\ pc = "panicked"
    /\ exit_code = 101

---------------------------------------------------------------------------
(* Properties of parse_args *)

SetMax(S) == CHOOSE m \in S : \A x \in S : x <= m

AllFlags ==
    {"-x", "--x_coor", "-y", "--y_coor", "-r", "--range", "-w", "--width",
     "-ht", "--height", "-a", "--algorithm", "-z", "--zoom", "-f", "--frames",
     "-t", "--threads"}

\* Argument p of the command line is no flag.
IsValue(p) == argv[p] \notin AllFlags \cup {"-h", "--help"}

\* The flag most recently seen before argument p, "" when there is none.
FlagBefore(p) ==
    LET qs == {q \in 1..(p - 1) : argv[q] \in AllFlags}
    IN  IF qs = {} THEN "" ELSE argv[SetMax(qs)]

\* Argument p is a configuration error: a value no flag asked for, a value
\* that is no number of the type its flag takes, or an unknown algorithm.
ConfigErrorAt(p) ==
    /\ IsValue(p)
    /\ \/ FlagBefore(p) = ""
       \/ FlagBefore(p) \in {"-x", "--x_coor", "-y", "--y_coor", "-r", "--range", "-z", "--zoom"}
             /\ ParseF64(argv[p]) = <<>>
       \/ FlagBefore(p) \in {"-w", "--width", "-ht", "--height", "-f", "--frames",
                             "-t", "--threads"}
             /\ ParseU32(argv[p]) = <<>>
       \/ FlagBefore(p) \in {"-a", "--algorithm"}
             /\ argv[p] \notin {"mandelbrot", "Mandelbrot"}

HasConfigError == \E p \in DOMAIN argv : ConfigErrorAt(p)
HasHelp == \E p \in DOMAIN argv : argv[p] \in {"-h", "--help"}

FrameWritten == \E k \in DOMAIN stdout : stdout[k] # HelpOutput
HelpPrinted == \E k \in DOMAIN stdout : stdout[k] = HelpOutput

\* C12: a command line with a configuration error never gets past
\* parse_args: the run ends there, by a panic or in help_args, no worker is
\* ever dispatched and no frame is ever generated or written; when the
\* error is reported nothing has been written yet.
C12_ConfigErrorEndsRun ==
    HasConfigError =>
        /\ pc \in {"parse_args", "panicked", "help_args"}
        /\ workers = <<>>
        /\ chan = <<>>
        /\ written = <<>>
        /\ ~FrameWritten
        /\ (pc = "parse_args" => stdout = <<>> /\ stderr = <<>>)
        /\ (pc = "panicked" => stdout = <<>> /\ stderr # <<>>)
        /\ (pc = "help_args" => exit_code = 0 /\ stdout = <<HelpOutput>>)

\* A malformed number, settings after it unread, has ended the run by a panic.
C12_Witness ==
    /\ HasConfigError
    /\ Len(argv) = 3
    /\ arg_k = 3
    /\ ConfigErrorAt(2)
    /\ argv[1] = "-f"
    /\ pc = "panicked"
    /\ exit_code = 101

\* C13: a command line with -h or --help anywhere ends with the help
\* printed and status 0 and never generates a frame.
C13_HelpTrumps ==
    HasHelp =>
        /\ pc \in {"parse_args", "help_args"}
        /\ workers = <<>>
        /\ ~FrameWritten
        /\ (exit_code # NotExited => exit_code = 0 /\ HelpPrinted)

\* The value of the setting of `flags` that the command line asks for:
\* the last value that follows one of them, flags in between apart.
LastValueFor(flags, parse, default) ==
    LET ps == {p \in DOMAIN argv : IsValue(p) /\ FlagBefore(p) \in flags}
    IN  IF ps = {} THEN default ELSE parse[SetMax(ps)]

AsF64 == [p \in DOMAIN argv |-> IF ParseF64(argv[p]) = <<>> THEN <<>> ELSE ParseF64(argv[p])[1]]
AsU32 == [p \in DOMAIN argv |-> IF ParseU32(argv[p]) = <<>> THEN <<>> ELSE ParseU32(argv[p])[1]]

\* C19: on a command line without help and without error, the ArgState
\* stays that of the last flag seen, however many values have been consumed
\* since; parse_args returns, and each setting is the last value given
\* while its flag was the last flag seen, or its default (x = -1, y = 0,
\* range = 4, width = 1920, height = 1080, zoom = 0.99, frames = 1,
\* threads = 1) when there is none.
C19_LastValueWins ==
    (~HasHelp /\ ~HasConfigError) =>
        /\ stderr = <<>>
        /\ ~HelpPrinted
        /\ pc # "help_args"
        /\ (pc = "panicked" => arg_k > Len(argv))
        /\ (pc = "parse_args" /\ arg_k <= Len(argv) /\ FlagBefore(arg_k) # "" =>
               state # "Initial" /\ state = FlagState[FlagBefore(arg_k)])
        /\ (pc # "parse_args" =>
               /\ focus_x = LastValueFor({"-x", "--x_coor"}, AsF64, F64FromInt(-1))
               /\ focus_y = LastValueFor({"-y", "--y_coor"}, AsF64, F64FromInt(0))
               /\ range_0 = LastValueFor({"-r", "--range"}, AsF64, F64FromInt(4))
               /\ zoom = LastValueFor({"-z", "--zoom"}, AsF64, F64FromRatio(99, 100))
               /\ width = LastValueFor({"-w", "--width"}, AsU32, 1920)
               /\ height = LastValueFor({"-ht", "--height"}, AsU32, 1080)
               /\ frames = LastValueFor({"-f", "--frames"}, AsU32, 1)
               /\ threads = LastValueFor({"-t", "--threads"}, AsU32, 1)
               /\ algorithm = "Mandelbrot")

\* parse_args has returned from a flag followed by two values: the second
\* one stands.
C19_Witness ==
    /\ argv = <<"-f", "0", "2">>
    /\ pc = "start"
    /\ frames = 2
    /\ threads = 1
    /\ state = "FrameCount"


---------------------------------------------------------------------------
(* Properties of the renderer *)

GenImageDone == call.fn = "gen_image" /\ rpc = "done"
ColorPointDone == call.fn = "color_point" /\ rpc = "done"

RECURSIVE Flatten(_)
Flatten(triples) ==
    IF triples = <<>> THEN <<>> ELSE Head(triples) \o Flatten(Tail(triples))

\* a, with s added k times, one f64 addition after the other.
RECURSIVE AddTimes(_, _, _)
AddTimes(a, s, k) == IF k = 0 THEN a ELSE F64Add(AddTimes(a, s, k - 1), s)

\* a, with s subtracted k times, one f64 subtraction after the other.
RECURSIVE SubTimes(_, _, _)
SubTimes(a, s, k) == IF k = 0 THEN a ELSE F64Sub(SubTimes(a, s, k - 1), s)

Two == F64FromInt(2)
Step(a) == F64Div(a.range, F64FromInt(a.width))
LeftEdge(a) == F64Sub(a.focus_x, F64Div(a.range, Two))
TopEdge(a) == F64Add(a.focus_y, F64Div(F64Mul(Step(a), F64FromInt(a.height)), Two))

\* Where gen_image samples the pixel of row r, column c.
SampleOf(a, r, c) ==
    <<AddTimes(LeftEdge(a), Step(a), c), SubTimes(TopEdge(a), Step(a), r)>>

RowOf(k, w) == (k - 1) \div w
ColOf(k, w) == (k - 1) % w

\* C11: the buffer gen_image returns is the header "P6\n{width} {height}\n255\n",
\* then width * height RGB triples in row-major order (the k-th triple is the
\* colour color_point gave for the pixel of row (k-1) div width, column
\* (k-1) mod width), then one newline byte; its length is
\* len(header) + width * height * 3 + 1.
C11_BufferLayout ==
    GenImageDone =>
        LET a == call.arg
            header == <<80, 54, 10>> \o Decimal(a.width) \o <<32>>
                      \o Decimal(a.height) \o <<10, 50, 53, 53, 10>>
            pixels == a.width * a.height
        IN  /\ Len(gi.colors) = pixels
            /\ Len(gi.samples) = pixels
            /\ \A k \in 1..pixels :
                  /\ gi.samples[k] = SampleOf(a, RowOf(k, a.width), ColOf(k, a.width))
                  /\ Len(gi.colors[k]) = 3
                  /\ \A b \in 1..3 :
                        ret[Len(header) + 3 * (k - 1) + b] = gi.colors[k][b]
            /\ SubSeq(ret, 1, Len(header)) = header
            /\ ret[Len(ret)] = 10
            /\ Len(ret) = Len(header) + pixels * 3 + 1
            /\ \A k \in 1..Len(ret) : ret[k] \in 0..255
            /\ (a.width = 10 /\ a.height = 1) =>
                  SubSeq(ret, 1, 12) = <<80, 54, 10, 49, 48, 32, 49, 10, 50, 53, 53, 10>>

\* A 3 x 2 image has been rendered.
C11_Witness ==
    /\ GenImageDone
    /\ call.arg.width = 3
    /\ call.arg.height = 2
    /\ Len(ret) = 11 + 18 + 1
    /\ \E k \in 1..6 : gi.colors[k] # <<0, 0, 0>>

NormSq(zr, zi) == F64Add(F64Mul(zr, zr), F64Mul(zi, zi))
Four == F64FromInt(4)
Zero == F64FromInt(0)

\* What escape_time has found out, in every state.
EscapeTimeState ==
    /\ rpc = "escape_time" =>
          /\ et.n \in 0..MAX_ATTEMPTS
          /\ et.n = 0 => et.z_real = Zero /\ et.z_imag = Zero
          /\ et.n > 0 => ~F64Ge(NormSq(et.z_real, et.z_imag), Four)
    /\ (rpc = "color_point_match" \/ ColorPointDone) =>
          \/ /\ et.time = None
             /\ et.n = MAX_ATTEMPTS
             /\ ~F64Ge(NormSq(et.z_real, et.z_imag), Four)
          \/ /\ et.time = Some(et.n)
             /\ et.n \in 0..(MAX_ATTEMPTS - 1)
             /\ F64Ge(NormSq(et.z_real, et.z_imag), Four)
    /\ (ColorPointDone /\ call.arg = <<Zero, Zero>>) =>
          et.time = None /\ ret = <<0, 0, 0>>
    /\ (ColorPointDone /\ call.arg = <<Two, Two>>) =>
          et.time = Some(0) /\ ret = <<0, 0, 0>>

\* One turn of escape_time's loop: z becomes z * z + c, and the index goes
\* up by one unless the function returns.
EscapeTimeTurn ==
    (rpc = "escape_time" /\ et.n < MAX_ATTEMPTS) =>
        /\ et'.z_real = F64Add(F64Sub(F64Mul(et.z_real, et.z_real),
                                      F64Mul(et.z_imag, et.z_imag)), et.x)
        /\ et'.z_imag = F64Add(F64Mul(Two, F64Mul(et.z_real, et.z_imag)), et.y)
        /\ et'.x = et.x /\ et'.y = et.y
        /\ \/ rpc' = "escape_time" /\ et'.n = et.n + 1
           \/ rpc' = "color_point_match" /\ et'.n = et.n

\* C14: escape_time starts from z = 0, applies z <- z * z + c and tests
\* |z|^2 >= 4 after each application; it returns the 0-based index of the
\* first application after which the test holds, and None when it holds
\* after none of the MAX_ATTEMPTS applications. (0, 0) is bounded and coloured
\* (0, 0, 0); (2, 2) escapes at iteration 0 and is coloured (0, 0, 0) too.
C14_EscapeTime == []EscapeTimeState /\ [][EscapeTimeTurn]_vars

\* color_point(0, 0) has returned after all MAX_ATTEMPTS applications.
C14_Witness ==
    /\ ColorPointDone
    /\ call.arg = <<Zero, Zero>>
    /\ et.n = MAX_ATTEMPTS
    /\ ret = <<0, 0, 0>>

FirstColumn(a) == gi.samples[1][1]
LastColumn(a) == gi.samples[a.width][1]
FirstRow(a) == gi.samples[1][2]
LastRow(a) == gi.samples[(a.height - 1) * a.width + 1][2]

ExactGrid(a) == a.width \in {1, 2, 4} /\ a.height \in {1, 2}

====
